---- MODULE Spec2Model ----
(***************************************************************************)
(* State machine of the MS Teams bridge plugin (server/plugin.go, held in  *)
(* src/server/testutils/data.go from line 175, and server/command.go).     *)
(*                                                                         *)
(* Every goroutine of the plugin is a process of the model: the start()    *)
(* run launched by OnActivate, the callers of restart(), the subscribe     *)
(* tasks launched by start(), the Send tasks launched by the post hook and *)
(* the slash-command workers.  A step of a process is one access to the    *)
(* plugin's shared fields or one call of a remote client / KV store.       *)
(***************************************************************************)
EXTENDS Integers, Sequences, FiniteSets, TLC

\* ---------------------------------------------------------------- bounds
MaxRestarts == 1      \* calls of restart()
MaxSubs     == 3      \* subscription ids the remote platform issues
MaxPosts    == 2      \* post events delivered to MessageHasBeenPosted
MaxMsgs     == 2      \* message ids the remote platform issues
MaxRenewals == 1      \* renewals one renewal task issues
MaxCmds     == 2      \* slash commands executed

\* ------------------------------------------------------------ input sets
LocalTeam      == "T1"
LocalChannels  == {"C1", "C2"}
RemoteTeam     == "rT"
RemoteChannels == {"rC1", "rC2"}
PostIds        == {"p1", "p2"}
Username       == "U"
Message        == "hello"

\* type ChannelLink struct
ChannelLink(mmTeam, mmChannel, msTeam, msChannel) ==
    [MattermostTeam |-> mmTeam, MattermostChannel |-> mmChannel,
     MSTeamsTeam |-> msTeam, MSTeamsChannel |-> msChannel]

\* the map key channel.TeamId+":"+channel.Id
Key(teamId, channelId) == <<teamId, channelId>>

LinkKey(link) == Key(link.MattermostTeam, link.MattermostChannel)

\* ------------------------------------------------------------ Go maps
\* A Go map value: nil (reads find nothing, a write panics) or a table.
NilMap   == [isNil |-> TRUE,  m |-> <<>>]
EmptyMap == [isNil |-> FALSE, m |-> <<>>]
MapOf(f) == [isNil |-> FALSE, m |-> f]
Has(map, k) == k \in DOMAIN map.m
Put(map, k, v) ==
    [isNil |-> FALSE,
     m |-> [x \in (DOMAIN map.m) \cup {k} |-> IF x = k THEN v ELSE map.m[x]]]
Delete(map, k) ==
    [isNil |-> map.isNil, m |-> [x \in (DOMAIN map.m) \ {k} |-> map.m[x]]]

\* A func() value held in stopSubscriptions.
NilFunc      == [kind |-> "nil", ctx |-> 0]
NoopFunc     == [kind |-> "noop", ctx |-> 0]
CancelOf(c)  == [kind |-> "cancel", ctx |-> c]

\* The empty string as a message id or a subscription id.
NoId == 0

\* ------------------------------------------------------------- the state
VARIABLES
    \* fields of Plugin
    channelsLinked,            \* map[string]ChannelLink
    subscriptionsToLinks,      \* map[string]ChannelLink, by subscription id
    stopSubscriptions,         \* func(): nil, func(){} or the cancel of a context
    stopContext,               \* the context stopSubscriptions cancels (0: none)
    msteamsAppClient,          \* TRUE once connectTeamsAppClient stored a client
    msteamsBotClient,
    msteamsAppClientMutex,     \* TRUE while locked
    msteamsBotClientMutex,
    \* the local platform's KV store
    kvChannelsLinked,          \* the blob under "channelsLinked"
    kvLocalToRemote,           \* "mattermost_teams_"+post id -> remote id
    kvRemoteToLocal,           \* "teams_mattermost_"+remote id -> post id
    \* the remote platform
    remoteSubs,                \* live subscription ids
    nSubs,                     \* subscription ids issued
    nMsgs,                     \* message ids issued
    \* contexts
    nCtx,                      \* contexts created
    cancelled,                 \* contexts cancelled
    \* goroutines
    starts,                    \* start()/restart() runs, by caller
    tasks,                     \* subscribe / renewal tasks
    sends,                     \* Send tasks
    cmds,                      \* slash-command workers
    crashed,                   \* a goroutine panicked: the process is gone
    \* the plugin's life
    activated,                 \* OnActivate returned nil
    registered,                \* the slash command is registered
    deactivated,               \* OnDeactivate returned
    nPosts, nCmds,
    \* history (not read by the program)
    subCtx,                    \* subscription id -> context of the task that got it
    sendLog,                   \* SendMessage calls made
    hookLog,                   \* post events handled
    refused,                   \* the last start() to reach the snapshot failed on it
    lastCmd,                   \* the command that returned last, and its response
    \* the users
    sequential,                \* they wait for a command's response before the next
    seqObs                     \* history of a sequential run: the last two commands

pluginVars == <<channelsLinked, subscriptionsToLinks, stopSubscriptions, stopContext,
                msteamsAppClient, msteamsBotClient,
                msteamsAppClientMutex, msteamsBotClientMutex>>
kvVars     == <<kvChannelsLinked, kvLocalToRemote, kvRemoteToLocal>>
remoteVars == <<remoteSubs, nSubs, nMsgs>>
ctxVars    == <<nCtx, cancelled>>
procVars   == <<starts, tasks, sends, cmds, crashed>>
lifeVars   == <<activated, registered, deactivated, nPosts, nCmds>>
histVars   == <<subCtx, sendLog, hookLog, refused, lastCmd>>
seqVars    == <<sequential, seqObs>>
vars == <<pluginVars, kvVars, remoteVars, ctxVars, procVars, lifeVars, histVars, seqVars>>

\* callers of start(): 0 is the goroutine of `go p.start()`, the others call restart()
StartIds == 0..MaxRestarts
CmdIds   == 1..MaxCmds

IdleStart == [pc |-> "idle", channelsLinked |-> <<>>, ctx |-> 0]
NoLink    == ChannelLink("", "", "", "")
NoCmd     == [op |-> "", key |-> Key("", ""), res |-> ""]
\* A command worker; loaded is history: the registry was loaded when it began
\* permitted, enabled are history too: the user held the manage-properties
\* permission matching the channel's type; the team was enabled for sync
IdleCmd   == [pc |-> "idle", op |-> "", key |-> Key("", ""), link |-> NoLink,
              sub |-> NoId, loaded |-> FALSE, permitted |-> FALSE, enabled |-> FALSE]

\* The blob under "channelsLinked": never written, or the JSON of a link table.
Absent      == [present |-> FALSE, links |-> <<>>]
Snapshot(f) == [present |-> TRUE, links |-> f]

\* What SeqSpec remembers: the table when the running command began, the last
\* command returned with the table it began on, and the one before it
NoObs == [pre |-> <<>>, last |-> NoCmd, lastPre |-> <<>>, prev |-> NoCmd, prevPre |-> <<>>]

InitialLink == ChannelLink(LocalTeam, "C1", RemoteTeam, "rC1")

\* What an earlier life of the plugin may have left in the KV store.
InitialSnapshots ==
    {Absent, Snapshot(<<>>),
     Snapshot([k \in {LinkKey(InitialLink)} |-> InitialLink])}

Init ==
    /\ sequential \in BOOLEAN
    /\ channelsLinked = NilMap
    /\ subscriptionsToLinks = NilMap
    /\ stopSubscriptions = NilFunc
    /\ stopContext = 0
    /\ msteamsAppClient = FALSE
    /\ msteamsBotClient = FALSE
    /\ msteamsAppClientMutex = FALSE
    /\ msteamsBotClientMutex = FALSE
    /\ kvChannelsLinked \in InitialSnapshots
    /\ kvLocalToRemote = <<>>
    /\ kvRemoteToLocal = <<>>
    /\ remoteSubs = {}
    /\ nSubs = 0
    /\ nMsgs = 0
    /\ nCtx = 0
    /\ cancelled = {}
    /\ starts = [s \in StartIds |-> IdleStart]
    /\ tasks = {}
    /\ sends = {}
    /\ cmds = [c \in CmdIds |-> IdleCmd]
    /\ crashed = FALSE
    /\ activated = FALSE
    /\ registered = FALSE
    /\ deactivated = FALSE
    /\ nPosts = 0
    /\ nCmds = 0
    /\ subCtx = <<>>
    /\ sendLog = {}
    /\ hookLog = {}
    /\ refused = FALSE
    /\ lastCmd = NoCmd
    /\ seqObs = NoObs

\* ------------------------------------------------------------ the plugin's life

\* func (p *Plugin) stop(): the contexts cancelled once it has run
stop == IF stopSubscriptions.kind = "cancel"
        THEN cancelled \cup {stopSubscriptions.ctx}
        ELSE cancelled

\* func (p *Plugin) OnActivate() error
\*   botOk: CreateBot or GetUserByUsername found the bot; configSet: Config != ""
OnActivate ==
    /\ ~crashed /\ ~activated /\ ~deactivated
    /\ stopSubscriptions' = NoopFunc
    /\ \E botOk, configSet \in BOOLEAN :
         /\ activated' = botOk
         /\ registered' = (botOk /\ configSet)
         /\ starts' = IF botOk /\ configSet
                      THEN [starts EXCEPT ![0].pc = "connectApp"]
                      ELSE starts
    /\ UNCHANGED <<channelsLinked, subscriptionsToLinks, stopContext,
                   msteamsAppClient, msteamsBotClient,
                   msteamsAppClientMutex, msteamsBotClientMutex>>
    /\ UNCHANGED <<kvVars, remoteVars, ctxVars, tasks, sends, cmds, crashed>>
    /\ UNCHANGED <<deactivated, nPosts, nCmds, histVars>>
    /\ UNCHANGED seqVars

\* func (p *Plugin) OnDeactivate() error
OnDeactivate ==
    /\ ~crashed /\ activated /\ ~deactivated
    /\ cancelled' = stop
    /\ deactivated' = TRUE
    /\ UNCHANGED <<pluginVars, kvVars, remoteVars, nCtx, procVars>>
    /\ UNCHANGED <<activated, registered, nPosts, nCmds, histVars>>
    /\ UNCHANGED seqVars

\* func (p *Plugin) restart(): its p.stop(); p.start() follows in the same caller
Restart(s) ==
    /\ ~crashed /\ ~deactivated /\ s > 0
    /\ starts[s].pc = "idle"
    /\ \A r \in 1..(s - 1) : starts[r].pc # "idle"
    /\ cancelled' = stop
    /\ starts' = [starts EXCEPT ![s].pc = "connectApp"]
    /\ UNCHANGED <<pluginVars, kvVars, remoteVars, nCtx, tasks, sends, cmds, crashed>>
    /\ UNCHANGED <<lifeVars, histVars>>
    /\ UNCHANGED seqVars

\* func (p *Plugin) connectTeamsAppClient() error, as start() calls it.
\* Lock() waits while the mutex is held; an error returns with it still held.
ConnectTeamsAppClient(s) ==
    /\ ~crashed
    /\ starts[s].pc = "connectApp"
    /\ ~msteamsAppClientMutex
    /\ \/ /\ msteamsAppClient' = TRUE
          /\ starts' = [starts EXCEPT ![s].pc = "connectBot"]
          /\ UNCHANGED msteamsAppClientMutex
       \/ /\ msteamsAppClientMutex' = TRUE
          /\ starts' = [starts EXCEPT ![s].pc = "done"]
          /\ UNCHANGED msteamsAppClient
    /\ UNCHANGED <<channelsLinked, subscriptionsToLinks, stopSubscriptions, stopContext,
                   msteamsBotClient, msteamsBotClientMutex>>
    /\ UNCHANGED <<kvVars, remoteVars, ctxVars, tasks, sends, cmds, crashed>>
    /\ UNCHANGED <<lifeVars, histVars>>
    /\ UNCHANGED seqVars

\* func (p *Plugin) connectTeamsBotClient() error, as start() calls it
ConnectTeamsBotClient(s) ==
    /\ ~crashed
    /\ starts[s].pc = "connectBot"
    /\ ~msteamsBotClientMutex
    /\ \/ /\ msteamsBotClient' = TRUE
          /\ starts' = [starts EXCEPT ![s].pc = "kvget"]
          /\ UNCHANGED msteamsBotClientMutex
       \/ /\ msteamsBotClientMutex' = TRUE
          /\ starts' = [starts EXCEPT ![s].pc = "done"]
          /\ UNCHANGED msteamsBotClient
    /\ UNCHANGED <<channelsLinked, subscriptionsToLinks, stopSubscriptions, stopContext,
                   msteamsAppClient, msteamsAppClientMutex>>
    /\ UNCHANGED <<kvVars, remoteVars, ctxVars, tasks, sends, cmds, crashed>>
    /\ UNCHANGED <<lifeVars, histVars>>
    /\ UNCHANGED seqVars

\* json.Unmarshal(channelsLinkedData, &channelsLinked) succeeds: a key never
\* written reads as no bytes, which is not JSON
Decodes(blob) == blob.present

\* start(): KVGet("channelsLinked") and json.Unmarshal; either failing returns
StartLoad(s) ==
    /\ ~crashed
    /\ starts[s].pc = "kvget"
    /\ \E readOk \in BOOLEAN :
         IF readOk /\ Decodes(kvChannelsLinked)
         THEN /\ starts' = [starts EXCEPT ![s].pc = "assign",
                                         ![s].channelsLinked = kvChannelsLinked.links]
              /\ UNCHANGED refused
         ELSE /\ starts' = [starts EXCEPT ![s].pc = "done"]
              /\ refused' = TRUE
    /\ UNCHANGED <<pluginVars, kvVars, remoteVars, ctxVars, tasks, sends, cmds, crashed>>
    /\ UNCHANGED <<lifeVars, subCtx, sendLog, hookLog, lastCmd>>
    /\ UNCHANGED seqVars

\* start(): p.channelsLinked = channelsLinked; p.subscriptionsToLinks = map[..]{}
StartAssign(s) ==
    /\ ~crashed
    /\ starts[s].pc = "assign"
    /\ channelsLinked' = MapOf(starts[s].channelsLinked)
    /\ subscriptionsToLinks' = EmptyMap
    /\ starts' = [starts EXCEPT ![s].pc = "context"]
    /\ refused' = FALSE
    /\ lastCmd' = NoCmd
    /\ UNCHANGED <<stopSubscriptions, stopContext, msteamsAppClient, msteamsBotClient,
                   msteamsAppClientMutex, msteamsBotClientMutex>>
    /\ UNCHANGED <<kvVars, remoteVars, ctxVars, tasks, sends, cmds, crashed>>
    /\ UNCHANGED <<lifeVars, subCtx, sendLog, hookLog>>
    /\ UNCHANGED seqVars

\* start(): ctx, stop := context.WithCancel(..); p.stopSubscriptions = stop
StartContext(s) ==
    /\ ~crashed
    /\ starts[s].pc = "context"
    /\ nCtx' = nCtx + 1
    /\ stopSubscriptions' = CancelOf(nCtx + 1)
    /\ stopContext' = nCtx + 1
    /\ starts' = [starts EXCEPT ![s].pc = "clear", ![s].ctx = nCtx + 1]
    /\ UNCHANGED <<channelsLinked, subscriptionsToLinks, msteamsAppClient, msteamsBotClient,
                   msteamsAppClientMutex, msteamsBotClientMutex>>
    /\ UNCHANGED <<kvVars, remoteVars, cancelled, tasks, sends, cmds, crashed>>
    /\ UNCHANGED <<lifeVars, histVars>>
    /\ UNCHANGED seqVars

\* The subscribe tasks start() launches: go p.subscribeToChannel(ctx, link), per link
SubscribeTasks(links, ctx) ==
    {[link |-> links[k], ctx |-> ctx, pc |-> "subscribe", sub |-> NoId, renews |-> 0] :
        k \in DOMAIN links}

\* start(): p.clearSubscriptions(), whose error is only logged, then the loop
\* that launches one subscribe task per link
StartClear(s) ==
    /\ ~crashed
    /\ starts[s].pc = "clear"
    /\ \/ remoteSubs' = {}
       \/ UNCHANGED remoteSubs
    /\ tasks' = tasks \cup SubscribeTasks(starts[s].channelsLinked, starts[s].ctx)
    /\ starts' = [starts EXCEPT ![s].pc = "done", ![s].channelsLinked = <<>>]
    /\ UNCHANGED <<pluginVars, kvVars, nSubs, nMsgs, ctxVars, sends, cmds, crashed>>
    /\ UNCHANGED <<lifeVars, histVars>>
    /\ UNCHANGED seqVars

\* ----------------------------------------------------------- subscribe tasks

\* subscribeToChannel: p.msteamsAppClient.SubscribeToChannel(teamId, channelId, url)
TaskSubscribe == \E t \in tasks :
    /\ ~crashed
    /\ t.pc = "subscribe"
    /\ \/ /\ nSubs < MaxSubs
          /\ nSubs' = nSubs + 1
          /\ remoteSubs' = remoteSubs \cup {nSubs + 1}
          /\ subCtx' = Put(MapOf(subCtx), nSubs + 1, t.ctx).m
          /\ tasks' = (tasks \ {t}) \cup {[t EXCEPT !.pc = "register", !.sub = nSubs + 1]}
       \/ /\ tasks' = tasks \ {t}
          /\ UNCHANGED <<nSubs, remoteSubs, subCtx>>
    /\ UNCHANGED <<pluginVars, kvVars, nMsgs, ctxVars, starts, sends, cmds, crashed>>
    /\ UNCHANGED <<lifeVars, sendLog, hookLog, refused, lastCmd>>
    /\ UNCHANGED seqVars

\* subscribeToChannel: p.subscriptionsToLinks[subscriptionID] = link, under the mutex
TaskRegister == \E t \in tasks :
    /\ ~crashed
    /\ t.pc = "register"
    /\ IF subscriptionsToLinks.isNil
       THEN /\ crashed' = TRUE
            /\ UNCHANGED <<subscriptionsToLinks, tasks>>
       ELSE /\ subscriptionsToLinks' = Put(subscriptionsToLinks, t.sub, t.link)
            /\ tasks' = (tasks \ {t}) \cup {[t EXCEPT !.pc = "refresh"]}
            /\ UNCHANGED crashed
    /\ UNCHANGED <<channelsLinked, stopSubscriptions, stopContext,
                   msteamsAppClient, msteamsBotClient,
                   msteamsAppClientMutex, msteamsBotClientMutex>>
    /\ UNCHANGED <<kvVars, remoteVars, ctxVars, starts, sends, cmds>>
    /\ UNCHANGED <<lifeVars, histVars>>
    /\ UNCHANGED seqVars

\* RefreshSubscriptionPeriodically(ctx, id): the timer fired while ctx is live
TaskRenew == \E t \in tasks :
    /\ ~crashed
    /\ t.pc = "refresh"
    /\ t.ctx \notin cancelled
    /\ t.renews < MaxRenewals
    /\ tasks' = (tasks \ {t}) \cup {[t EXCEPT !.renews = t.renews + 1]}
    /\ UNCHANGED <<pluginVars, kvVars, remoteVars, ctxVars, starts, sends, cmds, crashed>>
    /\ UNCHANGED <<lifeVars, histVars>>
    /\ UNCHANGED seqVars

\* RefreshSubscriptionPeriodically(ctx, id): ctx is cancelled, the task returns
TaskExit == \E t \in tasks :
    /\ ~crashed
    /\ t.pc = "refresh"
    /\ t.ctx \in cancelled
    /\ tasks' = tasks \ {t}
    /\ UNCHANGED <<pluginVars, kvVars, remoteVars, ctxVars, starts, sends, cmds, crashed>>
    /\ UNCHANGED <<lifeVars, histVars>>
    /\ UNCHANGED seqVars

LifeNext ==
    \/ OnActivate
    \/ OnDeactivate
    \/ \E s \in StartIds :
         \/ Restart(s)
         \/ ConnectTeamsAppClient(s)
         \/ ConnectTeamsBotClient(s)
         \/ StartLoad(s)
         \/ StartAssign(s)
         \/ StartContext(s)
         \/ StartClear(s)
    \/ TaskSubscribe
    \/ TaskRegister
    \/ TaskRenew
    \/ TaskExit

\* ------------------------------------------------------- local post -> remote

\* HasAntiEchoMarker with the check of post.Props left out
HasAntiEchoMarkerNever(props) == FALSE

\* MessageHasBeenPosted: post.Props carries "matterbridge_"+p.userID as a bool
\*   props: "nil" (no Props), "absent" (no such key), "bool", "nonbool"
HasAntiEchoMarker(props) == props = "bool"

\* MessageHasBeenPosted: link, ok := p.channelsLinked[channel.TeamId+":"+post.ChannelId]
LookupLink(teamId, channelId) ==
    IF Has(channelsLinked, Key(teamId, channelId))
    THEN {channelsLinked.m[Key(teamId, channelId)]}
    ELSE {}

\* The Send task MessageHasBeenPosted launches: go p.Send(link, user, post).
\* refused is history: the post arrived with no start() running, the last one to
\* reach the snapshot having failed on it
SendTask(ev, link, post) ==
    [ev |-> ev, link |-> link, Id |-> post.Id, RootId |-> post.RootId,
     pc |-> IF post.RootId # "" THEN "parent" ELSE "send",
     parentID |-> NoId, newMessageId |-> NoId,
     refused |-> refused /\ \A s \in StartIds : starts[s].pc \in {"idle", "done"}]

Posts == [Id : PostIds, ChannelId : LocalChannels, RootId : {"", "p1"}]

\* func (p *Plugin) MessageHasBeenPosted(c *plugin.Context, post *model.Post)
\*   chanOk, userOk: GetChannel / GetUser returned a value, not nil with an error
MessageHasBeenPosted ==
    /\ ~crashed /\ activated /\ ~deactivated
    /\ nPosts < MaxPosts
    /\ nPosts' = nPosts + 1
    /\ \E post \in Posts, props \in {"nil", "absent", "bool", "nonbool"},
          chanOk, userOk \in BOOLEAN :
         /\ post.RootId # post.Id
         /\ hookLog' = hookLog \cup
                {[ev |-> nPosts + 1, props |-> props, ChannelId |-> post.ChannelId,
                  links |-> LookupLink(LocalTeam, post.ChannelId)]}
         /\ IF HasAntiEchoMarker(props)
            THEN UNCHANGED <<sends, crashed>>
            ELSE IF ~chanOk
            THEN crashed' = TRUE /\ UNCHANGED sends
            ELSE IF LookupLink(LocalTeam, post.ChannelId) = {}
            THEN UNCHANGED <<sends, crashed>>
            ELSE IF ~userOk
            THEN crashed' = TRUE /\ UNCHANGED sends
            ELSE /\ \E link \in LookupLink(LocalTeam, post.ChannelId) :
                      sends' = sends \cup {SendTask(nPosts + 1, link, post)}
                 /\ UNCHANGED crashed
    /\ UNCHANGED <<pluginVars, kvVars, remoteVars, ctxVars, starts, tasks, cmds>>
    /\ UNCHANGED <<activated, registered, deactivated, nCmds>>
    /\ UNCHANGED <<subCtx, sendLog, refused, lastCmd>>
    /\ UNCHANGED seqVars

\* Send: parentID, _ = p.API.KVGet("mattermost_teams_" + post.RootId)
SendParent == \E t \in sends :
    /\ ~crashed
    /\ t.pc = "parent"
    /\ \E readOk \in BOOLEAN :
         sends' = (sends \ {t}) \cup
            {[t EXCEPT !.pc = "send",
                       !.parentID = IF readOk /\ t.RootId \in DOMAIN kvLocalToRemote
                                    THEN kvLocalToRemote[t.RootId] ELSE NoId]}
    /\ UNCHANGED <<pluginVars, kvVars, remoteVars, ctxVars, starts, tasks, cmds, crashed>>
    /\ UNCHANGED <<lifeVars, histVars>>
    /\ UNCHANGED seqVars

\* Text without the "@mattermost" suffix of the user name
TextPlain(username, message) == <<username, ": ", message>>

\* Send: text := user.Username + "@mattermost: " + post.Message
Text(username, message) == <<username, "@mattermost: ", message>>

\* The record of one SendMessage(team, channel, parentID, text) call
SendCall(t, ok, id) ==
    [ev |-> t.ev, Id |-> t.Id, RootId |-> t.RootId,
     MSTeamsTeam |-> t.link.MSTeamsTeam, MSTeamsChannel |-> t.link.MSTeamsChannel,
     parentID |-> t.parentID, text |-> Text(Username, Message),
     ok |-> ok, newMessageId |-> id, refused |-> t.refused]

\* AfterSendMessage with the err check left out
AfterSendMessageNoErrCheck(ok, postId, newMessageId) ==
    IF postId # "" /\ newMessageId # NoId THEN "set1" ELSE "return"

\* Send: where it goes after SendMessage returned (err != nil returns at once)
AfterSendMessage(ok, postId, newMessageId) ==
    IF ~ok THEN "return"
    ELSE IF postId # "" /\ newMessageId # NoId THEN "set1"
    ELSE "return"

\* Send: newMessageId, err := p.msteamsBotClient.SendMessage(..) and the err check.
\* A failing call may still hand back the id of a message it created.
SendMessage == \E t \in sends :
    /\ ~crashed
    /\ t.pc = "send"
    /\ \E ok \in BOOLEAN, id \in {NoId, nMsgs + 1} :
         /\ ok => (id # NoId /\ nMsgs < MaxMsgs)
         /\ nMsgs' = IF ok THEN nMsgs + 1 ELSE nMsgs
         /\ sendLog' = sendLog \cup {SendCall(t, ok, id)}
         /\ sends' = IF AfterSendMessage(ok, t.Id, id) = "set1"
                     THEN (sends \ {t}) \cup {[t EXCEPT !.pc = "set1", !.newMessageId = id]}
                     ELSE sends \ {t}
    /\ UNCHANGED <<pluginVars, kvVars, remoteSubs, nSubs, ctxVars, starts, tasks, cmds, crashed>>
    /\ UNCHANGED <<lifeVars, subCtx, hookLog, refused, lastCmd>>
    /\ UNCHANGED seqVars

\* p.API.KVSet(key, value): the store after it; its error is dropped by Send
KVSet(store, key, value) == Put(MapOf(store), key, value).m

\* Send: p.API.KVSet("mattermost_teams_"+post.Id, []byte(newMessageId))
SendSetLocalToRemote == \E t \in sends :
    /\ ~crashed
    /\ t.pc = "set1"
    /\ \/ kvLocalToRemote' = KVSet(kvLocalToRemote, t.Id, t.newMessageId)
       \/ UNCHANGED kvLocalToRemote
    /\ sends' = (sends \ {t}) \cup {[t EXCEPT !.pc = "set2"]}
    /\ UNCHANGED <<pluginVars, kvChannelsLinked, kvRemoteToLocal, remoteVars, ctxVars,
                   starts, tasks, cmds, crashed>>
    /\ UNCHANGED <<lifeVars, histVars>>
    /\ UNCHANGED seqVars

\* Send: p.API.KVSet("teams_mattermost_"+newMessageId, []byte(post.Id))
SendSetRemoteToLocal == \E t \in sends :
    /\ ~crashed
    /\ t.pc = "set2"
    /\ \/ kvRemoteToLocal' = KVSet(kvRemoteToLocal, t.newMessageId, t.Id)
       \/ UNCHANGED kvRemoteToLocal
    /\ sends' = sends \ {t}
    /\ UNCHANGED <<pluginVars, kvChannelsLinked, kvLocalToRemote, remoteVars, ctxVars,
                   starts, tasks, cmds, crashed>>
    /\ UNCHANGED <<lifeVars, histVars>>
    /\ UNCHANGED seqVars

BridgeNext ==
    \/ MessageHasBeenPosted
    \/ SendParent
    \/ SendMessage
    \/ SendSetLocalToRemote
    \/ SendSetRemoteToLocal

\* ------------------------------------------------------------ slash commands

ErrAlreadyLinked == "A link for this channel already exists, please remove unlink the channel before you link a new one"
ErrNotFound      == "MS Teams channel not found."
ErrSubscribe     == "Unable to subscribe to channel, probably it is already link to another channel."
ErrStore         == "Unable to store the new link, please try again."
ErrNotLinked     == "Link doesn't exist."
ErrUnsubscribe   == "Unable to store unsubscribe from channel, please try again."
Ok               == "ok"
ErrUnknown          == "Unknown command. Valid options: link, unlink and show."
ErrInvalidLink      == "Invalid link command, please pass the MS Teams team id and channel id as parameters."
ErrTeamDisabled     == "This team is not enabled for MS Teams sync."
ErrChannelInfo      == "Unable to get the current channel information."
ErrLinkPermission   == "Unable to link the channel. You have to be a channel admin to link it."
ErrUnlinkPermission == "Unable to unlink the channel, you has to be a channel admin to unlink it."
ErrShowNotLinked    == "Link doesn't exists."
ErrShowTeam         == "Unable to get the MS Teams team information."
ErrShowChannel      == "Unable to get the MS Teams channel information."
EmptyResponse       == ""

\* const msteamsCommand = "msteamssync", as typed
Trigger == "/msteamssync"

\* strings.Fields(args.Command) of the commands the server hands to the plugin
Commands ==
    {<<"/other">>, <<Trigger>>, <<Trigger, "bogus">>,
     <<Trigger, "link">>, <<Trigger, "link", RemoteTeam>>,
     <<Trigger, "unlink">>, <<Trigger, "show">>}
    \cup {<<Trigger, "link", RemoteTeam, rc>> : rc \in RemoteChannels}

\* model.ChannelTypeOpen, model.ChannelTypePrivate, model.ChannelTypeDirect
ChannelTypes == {"O", "P", "D"}

\* ExecuteCommand: action := split[1] when there is one
Action(split) == IF Len(split) > 1 THEN split[2] ELSE ""

\* ExecuteCommand: parameters = split[2:] when there are any
Parameters(split) == IF Len(split) > 2 THEN SubSeq(split, 3, Len(split)) ELSE <<>>

\* CanLinkChannel granting whoever holds either permission
CanLinkChannelAnyType(type, public, private) == public \/ private

\* canLinkChannel: the channel is open and the user manages public channel
\* properties, or it is private and the user manages private channel properties
CanLinkChannel(type, public, private) ==
    (type = "O" /\ public) \/ (type = "P" /\ private)

NoWorkerBusy == \A c \in CmdIds : cmds[c].pc = "idle"

\* The history of a sequential run, kept over a step of worker c
Observe(c) ==
    /\ UNCHANGED sequential
    /\ IF ~sequential THEN UNCHANGED seqObs
       ELSE IF cmds[c].pc = "idle" /\ cmds'[c].pc = "idle"
       THEN seqObs' = [pre |-> <<>>, last |-> lastCmd', lastPre |-> channelsLinked.m,
                       prev |-> seqObs.last, prevPre |-> seqObs.lastPre]
       ELSE IF cmds[c].pc = "idle"
       THEN seqObs' = [seqObs EXCEPT !.pre = channelsLinked.m]
       ELSE IF cmds'[c].pc = "idle"
       THEN seqObs' = [pre |-> <<>>, last |-> lastCmd', lastPre |-> seqObs.pre,
                       prev |-> seqObs.last, prevPre |-> seqObs.lastPre]
       ELSE UNCHANGED seqObs

\* A command returns: its worker is idle again and the command is the last completed
Return(c, res) ==
    /\ cmds' = [cmds EXCEPT ![c] = IdleCmd]
    /\ lastCmd' = [op |-> cmds[c].op, key |-> cmds[c].key, res |-> res]

\* A command answered by its first step: the worker stays idle
Answer(action, key, res) ==
    /\ lastCmd' = [op |-> action, key |-> key, res |-> res]
    /\ UNCHANGED cmds

\* A command that goes on to the registry
Begin(c, pc, action, key, link, permitted, enabled) ==
    /\ cmds' = [cmds EXCEPT ![c] =
                  [IdleCmd EXCEPT !.pc = pc, !.op = action, !.key = key, !.link = link,
                                  !.loaded = ~channelsLinked.isNil,
                                  !.permitted = permitted, !.enabled = enabled]]
    /\ UNCHANGED lastCmd

\* ExecuteCommand, and executeLinkCommand / executeUnlinkCommand / executeShowCommand
\* up to their first use of the registry.
\*   split: the words of the command; ch, type: the channel it is typed in;
\*   enabled: checkEnabledTeamByTeamId; chanOk: GetChannel found the channel;
\*   public, private: what HasPermissionToChannel answers for the two permissions
ExecuteCommand(c) ==
    /\ ~crashed /\ registered /\ ~deactivated
    /\ nCmds < MaxCmds
    /\ cmds[c].pc = "idle"
    /\ sequential => (NoWorkerBusy /\ starts[0].pc = "done")
    /\ \A d \in 1..(c - 1) : cmds[d].pc # "idle"
    /\ nCmds' = nCmds + 1
    /\ \E split \in Commands, ch \in LocalChannels, type \in ChannelTypes,
          enabled, chanOk, public, private \in BOOLEAN :
         LET action == Action(split)
             parameters == Parameters(split)
             key == Key(LocalTeam, ch)
         IN  IF split[1] # Trigger THEN Answer(action, key, EmptyResponse)
             ELSE IF action = "link" THEN
                  IF Len(parameters) < 2 THEN Answer(action, key, ErrInvalidLink)
                  ELSE IF ~enabled THEN Answer(action, key, ErrTeamDisabled)
                  ELSE IF ~chanOk THEN Answer(action, key, ErrChannelInfo)
                  ELSE IF ~CanLinkChannel(type, public, private)
                  THEN Answer(action, key, ErrLinkPermission)
                  ELSE Begin(c, "linkCheck", action, key,
                             ChannelLink(LocalTeam, ch, parameters[1], parameters[2]),
                             (type = "O" /\ public) \/ (type = "P" /\ private), enabled)
             ELSE IF action = "unlink" THEN
                  IF ~chanOk THEN Answer(action, key, ErrChannelInfo)
                  ELSE IF ~CanLinkChannel(type, public, private)
                  THEN Answer(action, key, ErrUnlinkPermission)
                  ELSE Begin(c, "unlinkCheck", action, key, NoLink,
                             (type = "O" /\ public) \/ (type = "P" /\ private), FALSE)
             ELSE IF action = "show" THEN
                  IF ~chanOk THEN Answer(action, key, ErrChannelInfo)
                  ELSE Begin(c, "showCheck", action, key, NoLink, FALSE, FALSE)
             ELSE Answer(action, key, ErrUnknown)
    /\ UNCHANGED <<pluginVars, kvVars, remoteVars, ctxVars, starts, tasks, sends, crashed>>
    /\ UNCHANGED <<activated, registered, deactivated, nPosts>>
    /\ UNCHANGED <<subCtx, sendLog, hookLog, refused>>
    /\ Observe(c)

\* executeLinkCommand: _, ok := p.channelsLinked[channel.TeamId+":"+channel.Id]
LinkCheck(c) ==
    /\ ~crashed
    /\ cmds[c].pc = "linkCheck"
    /\ IF Has(channelsLinked, cmds[c].key)
       THEN Return(c, ErrAlreadyLinked)
       ELSE /\ cmds' = [cmds EXCEPT ![c].pc = "linkWrite"]
            /\ UNCHANGED lastCmd
    /\ UNCHANGED <<pluginVars, kvVars, remoteVars, ctxVars, starts, tasks, sends, crashed>>
    /\ UNCHANGED <<lifeVars, subCtx, sendLog, hookLog, refused>>
    /\ Observe(c)

\* executeLinkCommand: p.channelsLinked[channel.TeamId+":"+channel.Id] = link
LinkStore(map, key, link) == Put(map, key, link)

\* executeLinkCommand: p.msteamsAppClient.GetChannel(..), then the write of the link
LinkWrite(c) ==
    /\ ~crashed
    /\ cmds[c].pc = "linkWrite"
    /\ \/ /\ Return(c, ErrNotFound)
          /\ UNCHANGED <<channelsLinked, crashed>>
       \/ /\ channelsLinked.isNil
          /\ crashed' = TRUE
          /\ cmds' = [cmds EXCEPT ![c].pc = "panic"]
          /\ UNCHANGED <<channelsLinked, lastCmd>>
       \/ /\ ~channelsLinked.isNil
          /\ channelsLinked' = LinkStore(channelsLinked, cmds[c].key, cmds[c].link)
          /\ cmds' = [cmds EXCEPT ![c].pc = "linkSubscribe"]
          /\ UNCHANGED <<crashed, lastCmd>>
    /\ UNCHANGED <<subscriptionsToLinks, stopSubscriptions, stopContext,
                   msteamsAppClient, msteamsBotClient,
                   msteamsAppClientMutex, msteamsBotClientMutex>>
    /\ UNCHANGED <<kvVars, remoteVars, ctxVars, starts, tasks, sends>>
    /\ UNCHANGED <<lifeVars, subCtx, sendLog, hookLog, refused>>
    /\ Observe(c)

\* executeLinkCommand: subscriptionID, err := p.subscribeToChannel(link), the
\* remote SubscribeToChannel call of it
LinkSubscribe(c) ==
    /\ ~crashed
    /\ cmds[c].pc = "linkSubscribe"
    /\ \/ /\ nSubs < MaxSubs
          /\ nSubs' = nSubs + 1
          /\ remoteSubs' = remoteSubs \cup {nSubs + 1}
          /\ subCtx' = Put(MapOf(subCtx), nSubs + 1, stopContext).m
          /\ cmds' = [cmds EXCEPT ![c].pc = "linkRegister", ![c].sub = nSubs + 1]
          /\ UNCHANGED lastCmd
       \/ /\ Return(c, ErrSubscribe)
          /\ UNCHANGED <<nSubs, remoteSubs, subCtx>>
    /\ UNCHANGED <<pluginVars, kvVars, nMsgs, ctxVars, starts, tasks, sends, crashed>>
    /\ UNCHANGED <<lifeVars, sendLog, hookLog, refused>>
    /\ Observe(c)

\* executeLinkCommand: the index entry subscribeToChannel writes under the mutex,
\* and go p.refreshSubscriptionPeridically(p.stopContext, subscriptionID)
LinkRegister(c) ==
    /\ ~crashed
    /\ cmds[c].pc = "linkRegister"
    /\ subscriptionsToLinks' = Put(subscriptionsToLinks, cmds[c].sub, cmds[c].link)
    /\ tasks' = tasks \cup {[link |-> cmds[c].link, ctx |-> stopContext, pc |-> "refresh",
                              sub |-> cmds[c].sub, renews |-> 0]}
    /\ cmds' = [cmds EXCEPT ![c].pc = "linkSave"]
    /\ UNCHANGED <<channelsLinked, stopSubscriptions, stopContext,
                   msteamsAppClient, msteamsBotClient,
                   msteamsAppClientMutex, msteamsBotClientMutex>>
    /\ UNCHANGED <<kvVars, remoteVars, ctxVars, starts, sends, crashed>>
    /\ UNCHANGED <<lifeVars, histVars>>
    /\ Observe(c)

\* saveChannelsLinked(): the blob it writes, the JSON of the whole table
SavedSnapshot == Snapshot(channelsLinked.m)

\* executeLinkCommand: err = p.saveChannelsLinked()
LinkSave(c) ==
    /\ ~crashed
    /\ cmds[c].pc = "linkSave"
    /\ \/ /\ kvChannelsLinked' = SavedSnapshot
          /\ Return(c, Ok)
       \/ /\ UNCHANGED kvChannelsLinked
          /\ Return(c, ErrStore)
    /\ UNCHANGED <<pluginVars, kvLocalToRemote, kvRemoteToLocal, remoteVars, ctxVars,
                   starts, tasks, sends, crashed>>
    /\ UNCHANGED <<lifeVars, subCtx, sendLog, hookLog, refused>>
    /\ Observe(c)

\* executeUnlinkCommand: link, ok := p.channelsLinked[channel.TeamId+":"+channel.Id]
UnlinkCheck(c) ==
    /\ ~crashed
    /\ cmds[c].pc = "unlinkCheck"
    /\ IF ~Has(channelsLinked, cmds[c].key)
       THEN Return(c, ErrNotLinked)
       ELSE /\ cmds' = [cmds EXCEPT ![c].pc = "unsubscribe",
                                    ![c].link = channelsLinked.m[cmds[c].key]]
            /\ UNCHANGED lastCmd
    /\ UNCHANGED <<pluginVars, kvVars, remoteVars, ctxVars, starts, tasks, sends, crashed>>
    /\ UNCHANGED <<lifeVars, subCtx, sendLog, hookLog, refused>>
    /\ Observe(c)

\* The subscription ids the index holds for a link
SubscriptionsOf(link) ==
    {id \in DOMAIN subscriptionsToLinks.m : subscriptionsToLinks.m[id] = link}

\* unsubscribeFromChannel(link): the index without the link's subscriptions
Unsubscribed(link) ==
    [isNil |-> subscriptionsToLinks.isNil,
     m |-> [id \in (DOMAIN subscriptionsToLinks.m) \ SubscriptionsOf(link) |->
              subscriptionsToLinks.m[id]]]

\* UnlinkFailed with the delete done before the unsubscribe call
UnlinkFailedDeleted(map, key) == Delete(map, key)

\* executeUnlinkCommand: the registry when unsubscribeFromChannel failed: the
\* error return comes before the delete
UnlinkFailed(map, key) == map

\* executeUnlinkCommand: err := p.unsubscribeFromChannel(link)
UnlinkUnsubscribe(c) ==
    /\ ~crashed
    /\ cmds[c].pc = "unsubscribe"
    /\ \/ /\ subscriptionsToLinks' = Unsubscribed(cmds[c].link)
          /\ remoteSubs' = remoteSubs \ SubscriptionsOf(cmds[c].link)
          /\ cmds' = [cmds EXCEPT ![c].pc = "unlinkDelete"]
          /\ UNCHANGED <<channelsLinked, lastCmd>>
       \/ /\ Return(c, ErrUnsubscribe)
          /\ channelsLinked' = UnlinkFailed(channelsLinked, cmds[c].key)
          /\ UNCHANGED <<subscriptionsToLinks, remoteSubs>>
    /\ UNCHANGED <<stopSubscriptions, stopContext,
                   msteamsAppClient, msteamsBotClient,
                   msteamsAppClientMutex, msteamsBotClientMutex>>
    /\ UNCHANGED <<kvVars, nSubs, nMsgs, ctxVars, starts, tasks, sends, crashed>>
    /\ UNCHANGED <<lifeVars, subCtx, sendLog, hookLog, refused>>
    /\ Observe(c)

\* UnlinkRemove with the delete left out
UnlinkRemoveNothing(map, key) == map

\* executeUnlinkCommand: delete(p.channelsLinked, channel.TeamId+":"+channel.Id)
UnlinkRemove(map, key) == Delete(map, key)

UnlinkDelete(c) ==
    /\ ~crashed
    /\ cmds[c].pc = "unlinkDelete"
    /\ channelsLinked' = UnlinkRemove(channelsLinked, cmds[c].key)
    /\ cmds' = [cmds EXCEPT ![c].pc = "unlinkSave"]
    /\ UNCHANGED <<subscriptionsToLinks, stopSubscriptions, stopContext,
                   msteamsAppClient, msteamsBotClient,
                   msteamsAppClientMutex, msteamsBotClientMutex>>
    /\ UNCHANGED <<kvVars, remoteVars, ctxVars, starts, tasks, sends, crashed>>
    /\ UNCHANGED <<lifeVars, histVars>>
    /\ Observe(c)

\* executeUnlinkCommand: err = p.saveChannelsLinked()
UnlinkSave(c) ==
    /\ ~crashed
    /\ cmds[c].pc = "unlinkSave"
    /\ \/ /\ kvChannelsLinked' = SavedSnapshot
          /\ Return(c, Ok)
       \/ /\ UNCHANGED kvChannelsLinked
          /\ Return(c, ErrStore)
    /\ UNCHANGED <<pluginVars, kvLocalToRemote, kvRemoteToLocal, remoteVars, ctxVars,
                   starts, tasks, sends, crashed>>
    /\ UNCHANGED <<lifeVars, subCtx, sendLog, hookLog, refused>>
    /\ Observe(c)

\* executeShowCommand: the lookup of the link, then GetTeam and GetChannel on the
\* remote platform and the reply
ShowCheck(c) ==
    /\ ~crashed
    /\ cmds[c].pc = "showCheck"
    /\ IF ~Has(channelsLinked, cmds[c].key)
       THEN Return(c, ErrShowNotLinked)
       ELSE \E res \in {ErrShowTeam, ErrShowChannel, Ok} : Return(c, res)
    /\ UNCHANGED <<pluginVars, kvVars, remoteVars, ctxVars, starts, tasks, sends, crashed>>
    /\ UNCHANGED <<lifeVars, subCtx, sendLog, hookLog, refused>>
    /\ Observe(c)

CmdStep(c) ==
    \/ ExecuteCommand(c)
    \/ ShowCheck(c)
    \/ LinkCheck(c)
    \/ LinkWrite(c)
    \/ LinkSubscribe(c)
    \/ LinkRegister(c)
    \/ LinkSave(c)
    \/ UnlinkCheck(c)
    \/ UnlinkUnsubscribe(c)
    \/ UnlinkDelete(c)
    \/ UnlinkSave(c)

CmdNext == \E c \in CmdIds : CmdStep(c)

\* ------------------------------------------------- accesses to the two maps

\* The goroutines whose next step reads ("r") or writes ("w") p.channelsLinked.
\* No access to this map takes a lock.
RegistryAccesses ==
    {[who |-> <<"start", s>>, mode |-> "w", guarded |-> FALSE] :
        s \in {x \in StartIds : starts[x].pc = "assign"}}
    \cup {[who |-> <<"command", c>>, mode |-> "r", guarded |-> FALSE] :
        c \in {x \in CmdIds : cmds[x].pc \in {"linkCheck", "unlinkCheck", "showCheck"}}}
    \cup {[who |-> <<"command", c>>, mode |-> "w", guarded |-> FALSE] :
        c \in {x \in CmdIds : cmds[x].pc \in {"linkWrite", "unlinkDelete"}}}

\* The goroutines whose next step writes p.subscriptionsToLinks: start() replaces
\* it without a lock, subscribeToChannel writes under subscriptionsToLinksMutex.
IndexAccesses ==
    {[who |-> <<"start", s>>, mode |-> "w", guarded |-> FALSE] :
        s \in {x \in StartIds : starts[x].pc = "assign"}}
    \cup {[who |-> <<"task", t.sub>>, mode |-> "w", guarded |-> TRUE] :
        t \in {x \in tasks : x.pc = "register"}}
    \cup {[who |-> <<"command", c>>, mode |-> "w", guarded |-> TRUE] :
        c \in {x \in CmdIds : cmds[x].pc = "linkRegister"}}

\* Two goroutines are about to access the same map, one of them writing, and
\* they do not exclude each other
Race(accesses) ==
    \E a, b \in accesses :
        /\ a.who # b.who
        /\ "w" \in {a.mode, b.mode}
        /\ ~(a.guarded /\ b.guarded)

\* ------------------------------------------------------------ specifications

StartNext ==
    \/ OnActivate
    \/ \E s \in StartIds :
         \/ ConnectTeamsAppClient(s)
         \/ ConnectTeamsBotClient(s)
         \/ StartLoad(s)
         \/ StartAssign(s)
         \/ StartContext(s)
         \/ StartClear(s)

RestartNext == \E s \in StartIds : Restart(s)

\* every goroutine, interleaved
Next == LifeNext \/ BridgeNext \/ CmdNext

Concurrent == Init /\ ~sequential

Spec == Concurrent /\ [][Next]_vars

\* activation, start, restart, deactivation and the subscribe / renewal tasks
LifeSpec == Concurrent /\ [][LifeNext]_vars

\* start with the post hook and its Send tasks
BridgeSpec == Concurrent /\ [][StartNext \/ BridgeNext]_vars

\* the same with restart
RestartBridgeSpec == Concurrent /\ [][StartNext \/ RestartNext \/ BridgeNext]_vars

\* start with concurrent command workers and the subscribe tasks
CmdSpec == Concurrent /\ [][StartNext \/ TaskSubscribe \/ TaskRegister \/ CmdNext]_vars

\* the same with one command at a time, each begun after start() returned
Sequential == Init /\ sequential

SeqSpec ==
    Sequential /\ [][StartNext \/ TaskSubscribe \/ TaskRegister \/ CmdNext]_vars

\* ------------------------------------------------------------------ claims

\* No command worker, start() run or subscription request is in flight.
Quiescent ==
    /\ NoWorkerBusy
    /\ \A s \in StartIds : starts[s].pc \in {"idle", "done"}
    /\ \A t \in tasks : t.pc = "refresh"

\* C1: a step of a command that began on the loaded registry leaves every link
\* it does not remove with the remote team and channel it had.
C1_LinkNeverChanges ==
    [][\A c \in CmdIds :
          (cmds[c].loaded /\ cmds'[c] # cmds[c]) =>
              \A k \in (DOMAIN channelsLinked.m) \cap (DOMAIN channelsLinked'.m) :
                  channelsLinked'.m[k] = channelsLinked.m[k]]_vars

\* C2: when nothing is in flight, every link of the registry has exactly one
\* subscription in the index, and every subscription of the index is a link
\* of the registry.
C2_OneSubscriptionPerLink ==
    Quiescent =>
        /\ \A k \in DOMAIN channelsLinked.m :
               Cardinality(SubscriptionsOf(channelsLinked.m[k])) = 1
        /\ \A id \in DOMAIN subscriptionsToLinks.m :
               /\ Has(channelsLinked, LinkKey(subscriptionsToLinks.m[id]))
               /\ channelsLinked.m[LinkKey(subscriptionsToLinks.m[id])]
                     = subscriptionsToLinks.m[id]

\* C3: every translator entry, and every Send that has reached its KVSet calls,
\* is backed by a SendMessage call for that post that returned success with
\* that id; a Send whose call failed has returned.
C3_MappingOnlyAfterSuccess ==
    /\ \A a \in DOMAIN kvLocalToRemote :
          \E s \in sendLog : s.ok /\ s.Id = a /\ s.newMessageId = kvLocalToRemote[a]
    /\ \A r \in DOMAIN kvRemoteToLocal :
          \E s \in sendLog : s.ok /\ s.newMessageId = r /\ s.Id = kvRemoteToLocal[r]
    /\ \A t \in sends :
          /\ t.pc \in {"set1", "set2"} =>
                \E s \in sendLog : s.ok /\ s.ev = t.ev /\ s.newMessageId = t.newMessageId
          /\ \A s \in sendLog : s.ev = t.ev => s.ok

\* C3's case: a SendMessage call failed, handing back an id, and a mapping of
\* another Send is in the store.
C3_Witness ==
    /\ \E s \in sendLog : ~s.ok /\ s.newMessageId # NoId
    /\ DOMAIN kvLocalToRemote # {}

\* C4: a post event whose props carry the anti-echo marker has no SendMessage
\* call and no Send task, in a linked channel or not.
C4_MarkedPostNeverSent ==
    \A h \in hookLog :
        h.props = "bool" =>
            /\ \A s \in sendLog : s.ev # h.ev
            /\ \A t \in sends : t.ev # h.ev

\* C4's case: a marked post was handled in a channel that is linked.
C4_Witness ==
    \E h \in hookLog :
        /\ h.props = "bool"
        /\ Has(channelsLinked, Key(LocalTeam, h.ChannelId))

\* C5: a local->remote translator entry, once written, keeps its value.
C5_FirstWriterWins ==
    [][\A a \in DOMAIN kvLocalToRemote :
          a \in DOMAIN kvLocalToRemote' /\ kvLocalToRemote'[a] = kvLocalToRemote[a]]_vars

\* C6: after a command that answered with the store error, the registry and
\* the persisted snapshot hold the same links.
C6_PersistFailureRollsBack ==
    (Quiescent /\ lastCmd.res = ErrStore) =>
        (kvChannelsLinked.present /\ channelsLinked.m = kvChannelsLinked.links)

\* C7: a successful link of a key the registry did not hold, followed at once
\* by a successful unlink of the key, leaves the key not found and the registry
\* as it was before the link; an unlink that follows a successful unlink of its
\* key and passes the channel lookup and the permission check answers
\* "Link doesn't exist." and leaves the registry as it found it.
C7_LinkThenUnlink ==
    /\ ( /\ seqObs.prev.op = "link" /\ seqObs.prev.res = Ok
          /\ seqObs.last.op = "unlink" /\ seqObs.last.res = Ok
          /\ seqObs.last.key = seqObs.prev.key
          /\ NoWorkerBusy )
        => /\ ~Has(channelsLinked, seqObs.last.key)
           /\ channelsLinked.m = seqObs.prevPre
    /\ ( /\ seqObs.prev.op = "unlink" /\ seqObs.prev.res = Ok
          /\ seqObs.last.op = "unlink"
          /\ seqObs.last.res \notin {ErrChannelInfo, ErrUnlinkPermission}
          /\ seqObs.last.key = seqObs.prev.key )
        => /\ seqObs.last.res = ErrNotLinked
           /\ NoWorkerBusy => channelsLinked.m = seqObs.lastPre

\* C7's case: a link and then an unlink of the same key, both successful, in a
\* registry that holds another link.
C7_Witness ==
    /\ seqObs.prev.op = "link" /\ seqObs.prev.res = Ok
    /\ seqObs.last.op = "unlink" /\ seqObs.last.res = Ok
    /\ seqObs.last.key = seqObs.prev.key
    /\ NoWorkerBusy
    /\ seqObs.prevPre # <<>>

\* C8: once OnDeactivate has returned, every renewal task runs on a cancelled
\* context.
C8_StopCancelsRenewals ==
    deactivated => \A t \in tasks : t.pc = "refresh" => t.ctx \in cancelled

\* C9: once a restart and every subscribe task have completed, the index holds
\* only subscriptions obtained by the tasks that restart launched.
C9_RestartIndexIsClean ==
    \A r \in StartIds \ {0} :
        ( /\ starts[r].pc = "done" /\ starts[r].ctx # 0
          /\ stopContext = starts[r].ctx
          /\ Quiescent )
        => \A id \in DOMAIN subscriptionsToLinks.m : subCtx[id] = starts[r].ctx

\* C10: a post event that arrives after a start() that failed on the snapshot
\* leads to no SendMessage call.
C10_NoBridgingAfterFailedLoad ==
    \A s \in sendLog : ~s.refused

\* C11: ExecuteCommand always returns a response: no command worker panics,
\* whatever the command and whatever state start() left the plugin in.
C11_CommandAlwaysResponds == \A c \in CmdIds : cmds[c].pc # "panic"

\* C12: the link registry and the subscription index are guarded: never are two
\* goroutines about to access the same map, one of them writing, without
\* excluding each other.
C12_MapsGuarded == ~Race(RegistryAccesses) /\ ~Race(IndexAccesses)

C13_ReplyParent ==
    [][\A s \in sendLog' \ sendLog :
          s.RootId # "" =>
              LET roots == {r \in sendLog : /\ r.ok /\ r.Id = s.RootId
                                            /\ r.newMessageId # NoId /\ r.ev < s.ev}
              IN  IF roots # {}
                  THEN s.parentID \in {r.newMessageId : r \in roots}
                  ELSE s.parentID = NoId]_vars

\* The SendMessage calls made for post event h, and its Send task not yet there
CallsOf(h) == {s \in sendLog : s.ev = h.ev}
PendingOf(h) == {t \in sends : t.ev = h.ev /\ t.pc \in {"parent", "send"}}

\* Every untagged post event in a linked channel has at most one call, to the
\* remote channel of the link found, and exactly one once its Send is past the
\* call; an event in an unlinked channel has no call and no Send task
OneCallPerEvent ==
    \A h \in hookLog :
        h.props # "bool" =>
            IF h.links = {}
            THEN CallsOf(h) = {} /\ \A t \in sends : t.ev # h.ev
            ELSE /\ Cardinality(CallsOf(h)) <= 1
                 /\ \A s \in CallsOf(h), l \in h.links :
                       /\ s.MSTeamsTeam = l.MSTeamsTeam
                       /\ s.MSTeamsChannel = l.MSTeamsChannel
                 /\ PendingOf(h) = {} => Cardinality(CallsOf(h)) = 1

\* C14: each untagged post event in a linked channel produces exactly one
\* SendMessage call, to the remote team and channel of the link found, and never
\* a second one; an event in a channel that is not linked produces no call and
\* changes nothing.
C14_ExactlyOneSend ==
    [][/\ OneCallPerEvent'
       /\ \A h \in hookLog' \ hookLog :
             (h.props # "bool" /\ h.links = {}) =>
                 UNCHANGED <<pluginVars, kvVars, remoteVars, sends, sendLog>>]_vars

\* C16 as stated: the text of a non-reply post is the user name, ": " and the
\* message, and the remote parent id is empty.
C16_TextAsClaimed ==
    \A s \in sendLog :
        s.RootId = "" => (s.text = <<Username, ": ", Message>> /\ s.parentID = NoId)

\* C16 amended: the text of a non-reply post is the user name, "@mattermost: "
\* and the message, and the remote parent id is empty.
C16_TextFormat ==
    \A s \in sendLog :
        s.RootId = "" =>
            (s.text = <<Username, "@mattermost: ", Message>> /\ s.parentID = NoId)

\* A non-reply post of a linked channel has been sent.
C16_Witness == \E s \in sendLog : s.RootId = "" /\ s.ok

\* C17: outside the window between the two writes of one Send, the two
\* directions of the translator mirror each other.
C17_TranslatorConsistent ==
    (\A t \in sends : t.pc # "set2") =>
        /\ \A a \in DOMAIN kvLocalToRemote :
              /\ kvLocalToRemote[a] \in DOMAIN kvRemoteToLocal
              /\ kvRemoteToLocal[kvLocalToRemote[a]] = a
        /\ \A r \in DOMAIN kvRemoteToLocal :
              /\ kvRemoteToLocal[r] \in DOMAIN kvLocalToRemote
              /\ kvLocalToRemote[kvRemoteToLocal[r]] = r

\* C15: a start() that launches subscribe tasks has cleared the remote
\* subscriptions first: when its subscribe loop begins, no subscription issued
\* before this start is left on the remote platform.
C15_ClearBeforeSubscribe ==
    [][\A s \in StartIds :
          (starts[s].pc = "clear" /\ starts'[s].pc = "done" /\ tasks' # tasks) =>
              remoteSubs' = {}]_vars

\* C18: an unlink command whose unsubscribe call fails answers with the error
\* and has changed nothing: no step of it up to the failing call touches the
\* registry or the persisted snapshot, the registry is the one the command began
\* on, and the link is still found for the channel.
C18_FailedUnsubscribeChangesNothing ==
    [][\A c \in CmdIds :
          /\ (cmds'[c] # cmds[c] /\ cmds[c].pc \in {"unlinkCheck", "unsubscribe"}) =>
                 UNCHANGED <<channelsLinked, kvChannelsLinked>>
          /\ (cmds[c].pc = "unsubscribe" /\ cmds'[c].pc = "idle") =>
                 /\ lastCmd'.res = ErrUnsubscribe
                 /\ channelsLinked'.m = seqObs.pre
                 /\ Has(channelsLinked', cmds[c].key)
                 /\ channelsLinked'.m[cmds[c].key] = cmds[c].link]_vars

\* An unlink of a linked channel has failed at the unsubscribe call.
C18_Witness == seqObs.last.op = "unlink" /\ seqObs.last.res = ErrUnsubscribe

\* C19: start() never waits for a client mutex nobody will release: whenever a
\* start is about to call connectTeamsAppClient or connectTeamsBotClient, the
\* mutex it locks is free.
C19_StartTerminates ==
    \A s \in StartIds :
        /\ starts[s].pc = "connectApp" => ~msteamsAppClientMutex
        /\ starts[s].pc = "connectBot" => ~msteamsBotClientMutex
====
